---- MODULE Spec2Model ----
(* Model of the domain-query crate: typed values and properties, the Is / In *)
(* condition primitives, the Context, the append-only Expression builder and *)
(* the fold-based partial evaluator.                                         *)
(*                                                                           *)
(* Encoding.  A Rust enum value is a tuple whose first element is the        *)
(* variant name: Value::Int(42) is <<"Int", 42>>, Operation::Or(0, 1) is     *)
(* <<"Or", 0, 1>>, Ok(x) is <<"Ok", x>>.  A stored node (Operation, RefCount)*)
(* is the pair <<operation, refcount>>.  OpRef indices are 0-based as in the *)
(* source, so node i of ops is ops[i + 1].  The rendered strings carried by  *)
(* the Expression* errors (Expression::display) are diagnostics only and are *)
(* left out of the error tuples.                                             *)
EXTENDS Integers, Sequences, FiniteSets, TLC

\* ops:      the node list of the Expression under construction
\* context:  the Context the caller holds
\* last:     the most recent call, its arguments and what it returned
\* residual: the Partially result of the latest eval of ops that the caller
\*           still holds, with the values the Context held at that eval
\* cond:     the condition object the latest Is::new / In::new returned
VARIABLES ops, context, last, residual, cond

vars == <<ops, context, last, residual, cond>>

(***************************************************************************)
(* Bounds                                                                  *)
(***************************************************************************)
MaxOps == 3
MaxFoldOps == 4

(***************************************************************************)
(* value.rs, testproperty.rs, domain.rs                                    *)
(***************************************************************************)
Properties == {"Bool", "Int", "Str"}

ValueBool(b) == <<"Bool", b>>
ValueInt(n) == <<"Int", n>>
ValueStr(s) == <<"Str", s>>

Ok(x) == <<"Ok", x>>
Err(e) == <<"Err", e>>
IsOk(r) == r[1] = "Ok"
IsErr(r) == r[1] = "Err"
Some(x) == <<"Some", x>>
None == <<"None">>
Unit == <<>>

TypeMismatch(n, expected, actual) == <<"TypeMismatch", n, expected, actual>>
ExpressionNoop == <<"ExpressionNoop">>
ExpressionOutOfBounds(op, lastValid) == <<"ExpressionOutOfBounds", op, lastValid>>
ExpressionFutureReference(opref, idx) == <<"ExpressionFutureReference", opref, idx>>
ExpressionDisconnected(idx) == <<"ExpressionDisconnected", idx>>

ValueDatatype(value) ==
    CASE value[1] = "Bool" -> "Datatype::Bool"
      [] value[1] = "Int" -> "Datatype::Int"
      [] value[1] = "Str" -> "Datatype::Str"

name(p) ==
    CASE p = "Bool" -> "Property::Bool"
      [] p = "Int" -> "Property::Int"
      [] p = "Str" -> "Property::Str"

datatype(p) ==
    CASE p = "Bool" -> "Datatype::Bool"
      [] p = "Int" -> "Datatype::Int"
      [] p = "Str" -> "Datatype::Str"

\* Mutant of validate: the two datatypes of the error change places.
validateSwapsDatatypes(p, value) ==
    IF datatype(p) # ValueDatatype(value)
    THEN Err(TypeMismatch(name(p), ValueDatatype(value), datatype(p)))
    ELSE Ok(Unit)

validate(p, value) ==
    IF datatype(p) # ValueDatatype(value)
    THEN Err(TypeMismatch(name(p), datatype(p), ValueDatatype(value)))
    ELSE Ok(Unit)

(***************************************************************************)
(* condition.rs                                                            *)
(***************************************************************************)
IsNew(variable, expected) ==
    IF IsErr(validate(variable, expected))
    THEN validate(variable, expected)
    ELSE Ok([variable |-> variable, expected |-> expected])

IsEval(c, actual) ==
    IF IsErr(validate(c.variable, actual))
    THEN validate(c.variable, actual)
    ELSE Ok(c.expected = actual)

\* In::new walks a HashSet, whose iteration order is unspecified: the item
\* that fails first can be any item of the wrong datatype.  The operator
\* gives the set of results the call can produce.
InNew(variable, expected) ==
    LET bad == {item \in expected : IsErr(validate(variable, item))}
    IN  IF bad = {}
        THEN {Ok([variable |-> variable, expected |-> expected])}
        ELSE {validate(variable, item) : item \in bad}

\* Mutant of InEval: membership is answered without validating the value.
InEvalUnchecked(c, actual) == Ok(actual \in c.expected)

InEval(c, actual) ==
    IF IsErr(validate(c.variable, actual))
    THEN validate(c.variable, actual)
    ELSE Ok(actual \in c.expected)

(***************************************************************************)
(* expression.rs: Context                                                  *)
(***************************************************************************)
NoValues == [p \in {} |-> Unit]

ContextEmpty == [requested |-> {}, provided |-> NoValues]

ContextRequest(props) == [requested |-> props, provided |-> NoValues]

ContextValue(ctx, property) ==
    IF property \in DOMAIN ctx.provided
    THEN Some(ctx.provided[property])
    ELSE None

\* Mutant of ContextProvide: the value is stored whether or not the property
\* is requested.
ContextProvideUnrequested(ctx, property, value) ==
    IF datatype(property) # ValueDatatype(value)
    THEN [ctx |-> ctx,
          res |-> Err(TypeMismatch(name(property), datatype(property),
                                   ValueDatatype(value)))]
    ELSE [ctx |-> [ctx EXCEPT !.provided =
                       [p \in DOMAIN ctx.provided \cup {property} |->
                           IF p = property THEN value ELSE ctx.provided[p]]],
          res |-> Ok(Unit)]

\* Mutant of ContextProvide: the value's datatype is not checked.
ContextProvideUnchecked(ctx, property, value) ==
    IF property \in ctx.requested
    THEN [ctx |-> [ctx EXCEPT !.provided =
                       [p \in DOMAIN ctx.provided \cup {property} |->
                           IF p = property THEN value ELSE ctx.provided[p]]],
          res |-> Ok(Unit)]
    ELSE [ctx |-> ctx, res |-> Ok(Unit)]

\* The context after provide(property, value), and the call's result.
ContextProvide(ctx, property, value) ==
    IF datatype(property) # ValueDatatype(value)
    THEN [ctx |-> ctx,
          res |-> Err(TypeMismatch(name(property), datatype(property),
                                   ValueDatatype(value)))]
    ELSE IF property \in ctx.requested
    THEN [ctx |-> [ctx EXCEPT !.provided =
                       [p \in DOMAIN ctx.provided \cup {property} |->
                           IF p = property THEN value ELSE ctx.provided[p]]],
          res |-> Ok(Unit)]
    ELSE [ctx |-> ctx, res |-> Ok(Unit)]

(***************************************************************************)
(* expression.rs: Expression builder                                       *)
(***************************************************************************)
Const(b) == <<"Const", b>>
OpIs(c) == <<"Is", c>>
OpIn(c) == <<"In", c>>
OpNot(opref) == <<"Not", opref>>
OpOr(lhs, rhs) == <<"Or", lhs, rhs>>
OpAnd(lhs, rhs) == <<"And", lhs, rhs>>

ExpressionNew == <<>>

ExprLast(e) ==
    IF e # <<>>
    THEN Ok(Len(e) - 1)
    ELSE Err(ExpressionOutOfBounds(0, 0))

\* Mutant of valid: the bound is compared with <=.
validOffByOne(e, op) ==
    IF op <= Len(e)
    THEN Ok(op)
    ELSE IF IsErr(ExprLast(e))
    THEN ExprLast(e)
    ELSE Err(ExpressionOutOfBounds(op, ExprLast(e)[2]))

valid(e, op) ==
    IF op < Len(e)
    THEN Ok(op)
    ELSE IF IsErr(ExprLast(e))
    THEN ExprLast(e)
    ELSE Err(ExpressionOutOfBounds(op, ExprLast(e)[2]))

\* ops[opref].1 += 1
IncRef(e, opref) == [e EXCEPT ![opref + 1] = <<@[1], @[2] + 1>>]

\* Every builder call gives the node list it leaves and the result it returns.
constant(e, value) ==
    LET pushed == Append(e, <<Const(value), 0>>)
    IN  [ops |-> pushed, res |-> ExprLast(pushed)]

is(e, variable, value) ==
    IF IsErr(IsNew(variable, value))
    THEN [ops |-> e, res |-> IsNew(variable, value)]
    ELSE LET pushed == Append(e, <<OpIs(IsNew(variable, value)[2]), 0>>)
         IN  [ops |-> pushed, res |-> ExprLast(pushed)]

\* made is one of the results In::new can produce for the call's arguments.
is_in(e, made) ==
    IF IsErr(made)
    THEN [ops |-> e, res |-> made]
    ELSE LET pushed == Append(e, <<OpIn(made[2]), 0>>)
         IN  [ops |-> pushed, res |-> ExprLast(pushed)]

not(e, opref) ==
    IF IsErr(valid(e, opref))
    THEN [ops |-> e, res |-> valid(e, opref)]
    ELSE LET pushed == IncRef(Append(e, <<OpNot(opref), 0>>), opref)
         IN  [ops |-> pushed, res |-> ExprLast(pushed)]

\* Mutant of or: only the left operand's count is incremented.
orCountsLhsOnly(e, lhs, rhs) ==
    IF IsErr(valid(e, lhs))
    THEN [ops |-> e, res |-> valid(e, lhs)]
    ELSE IF IsErr(valid(e, rhs))
    THEN [ops |-> e, res |-> valid(e, rhs)]
    ELSE LET pushed == IncRef(Append(e, <<OpOr(lhs, rhs), 0>>), lhs)
         IN  [ops |-> pushed, res |-> ExprLast(pushed)]

or(e, lhs, rhs) ==
    IF IsErr(valid(e, lhs))
    THEN [ops |-> e, res |-> valid(e, lhs)]
    ELSE IF IsErr(valid(e, rhs))
    THEN [ops |-> e, res |-> valid(e, rhs)]
    ELSE LET pushed == IncRef(IncRef(Append(e, <<OpOr(lhs, rhs), 0>>), lhs), rhs)
         IN  [ops |-> pushed, res |-> ExprLast(pushed)]

and(e, lhs, rhs) ==
    IF IsErr(valid(e, lhs))
    THEN [ops |-> e, res |-> valid(e, lhs)]
    ELSE IF IsErr(valid(e, rhs))
    THEN [ops |-> e, res |-> valid(e, rhs)]
    ELSE LET pushed == IncRef(IncRef(Append(e, <<OpAnd(lhs, rhs), 0>>), lhs), rhs)
         IN  [ops |-> pushed, res |-> ExprLast(pushed)]

\* Mutant of VariableOf: In nodes are passed over.
VariableOfIsOnly(op) ==
    CASE op[1] = "Is" -> Some(op[2].variable)
      [] OTHER -> None

\* The closure of filter_map: the property of an Is or In node, nothing for
\* any other node.
VariableOf(op) ==
    CASE op[1] = "Is" -> Some(op[2].variable)
      [] op[1] = "In" -> Some(op[2].variable)
      [] OTHER -> None

\* filter_map over the first n nodes in index order, collected into a HashSet.
RECURSIVE CollectVariables(_, _)
CollectVariables(e, n) ==
    IF n = 0
    THEN {}
    ELSE CollectVariables(e, n - 1) \cup
         (IF VariableOf(e[n][1]) = None THEN {} ELSE {VariableOf(e[n][1])[2]})

variables(e) == ContextRequest(CollectVariables(e, Len(e)))

(***************************************************************************)
(* expression.rs: evaluation                                               *)
(***************************************************************************)
Fully(result, log) == <<"Fully", result, log>>
Partially(expr) == <<"Partially", expr>>

\* results.get(opref): the node already produced at opref, if any.
ResultsGet(results, opref) ==
    IF opref < Len(results) THEN Some(results[opref + 1]) ELSE None

\* The arms of eval_single.  Each gives Ok(Some(b)) when the node folds to
\* b, Ok(None) when it stays as it is, or the error.
EvalIs(c, ctx) ==
    IF ContextValue(ctx, c.variable) = None
    THEN Ok(None)
    ELSE LET r == IsEval(c, ContextValue(ctx, c.variable)[2])
         IN  IF IsErr(r) THEN r ELSE Ok(Some(r[2]))

EvalIn(c, ctx) ==
    IF ContextValue(ctx, c.variable) = None
    THEN Ok(None)
    ELSE LET r == InEval(c, ContextValue(ctx, c.variable)[2])
         IN  IF IsErr(r) THEN r ELSE Ok(Some(r[2]))

IsConst(node) == node[1][1] = "Const"
ConstVal(node) == node[1][2]

\* Mutant of EvalNot: the operand's value is passed on without negation.
EvalNotKeepsValue(idx, opref, results) ==
    LET deref == ResultsGet(results, opref)
    IN  IF deref = None
        THEN Err(ExpressionFutureReference(opref, idx))
        ELSE IF IsConst(deref[2])
        THEN Ok(Some(ConstVal(deref[2])))
        ELSE Ok(None)

EvalNot(idx, opref, results) ==
    LET deref == ResultsGet(results, opref)
    IN  IF deref = None
        THEN Err(ExpressionFutureReference(opref, idx))
        ELSE IF IsConst(deref[2])
        THEN Ok(Some(~ConstVal(deref[2])))
        ELSE Ok(None)

\* Mutant of EvalOr: the arm of And pasted for Or.
EvalOrAsAnd(idx, lhs, rhs, results) ==
    LET lop == ResultsGet(results, lhs)
        rop == ResultsGet(results, rhs)
    IN  IF lop = None
        THEN Err(ExpressionFutureReference(lhs, idx))
        ELSE IF rop = None
        THEN Err(ExpressionFutureReference(rhs, idx))
        ELSE IF IsConst(lop[2]) /\ IsConst(rop[2])
        THEN Ok(Some(ConstVal(lop[2]) /\ ConstVal(rop[2])))
        ELSE Ok(None)

\* Mutant of EvalOr: an operand known to be true decides the Or.
EvalOrShortCircuit(idx, lhs, rhs, results) ==
    LET lop == ResultsGet(results, lhs)
        rop == ResultsGet(results, rhs)
    IN  IF lop = None
        THEN Err(ExpressionFutureReference(lhs, idx))
        ELSE IF rop = None
        THEN Err(ExpressionFutureReference(rhs, idx))
        ELSE IF IsConst(lop[2]) /\ IsConst(rop[2])
        THEN Ok(Some(ConstVal(lop[2]) \/ ConstVal(rop[2])))
        ELSE IF (IsConst(lop[2]) /\ ConstVal(lop[2])) \/ (IsConst(rop[2]) /\ ConstVal(rop[2]))
        THEN Ok(Some(TRUE))
        ELSE Ok(None)

EvalOr(idx, lhs, rhs, results) ==
    LET lop == ResultsGet(results, lhs)
        rop == ResultsGet(results, rhs)
    IN  IF lop = None
        THEN Err(ExpressionFutureReference(lhs, idx))
        ELSE IF rop = None
        THEN Err(ExpressionFutureReference(rhs, idx))
        ELSE IF IsConst(lop[2]) /\ IsConst(rop[2])
        THEN Ok(Some(ConstVal(lop[2]) \/ ConstVal(rop[2])))
        ELSE Ok(None)

EvalAnd(idx, lhs, rhs, results) ==
    LET lop == ResultsGet(results, lhs)
        rop == ResultsGet(results, rhs)
    IN  IF lop = None
        THEN Err(ExpressionFutureReference(lhs, idx))
        ELSE IF rop = None
        THEN Err(ExpressionFutureReference(rhs, idx))
        ELSE IF IsConst(lop[2]) /\ IsConst(rop[2])
        THEN Ok(Some(ConstVal(lop[2]) /\ ConstVal(rop[2])))
        ELSE Ok(None)

eval_single(idx, op, results, ctx) ==
    CASE op[1] = "Is" -> EvalIs(op[2], ctx)
      [] op[1] = "In" -> EvalIn(op[2], ctx)
      [] op[1] = "Not" -> EvalNot(idx, op[2], results)
      [] op[1] = "Or" -> EvalOr(idx, op[2], op[3], results)
      [] op[1] = "And" -> EvalAnd(idx, op[2], op[3], results)
      [] OTHER -> Ok(None)

\* Mutant of Disconnected: the count is compared with < 0, which no count is.
DisconnectedNever(e, idx) == e[idx + 1][2] < 0 /\ idx # Len(e) - 1

\* Mutant of Disconnected: the last node is not exempted.
DisconnectedLastToo(e, idx) == e[idx + 1][2] <= 0

\* The connectivity check on node idx.
Disconnected(e, idx) == e[idx + 1][2] <= 0 /\ idx # Len(e) - 1

\* Mutant of Produced: a folded node starts again with no reference.
ProducedDropsRefCount(node, folded) ==
    IF folded = None
    THEN node
    ELSE <<Const(folded[2]), 0>>

\* The node pushed to the output list for node, given what eval_single said.
Produced(node, folded) ==
    IF folded = None
    THEN node
    ELSE <<Const(folded[2]), node[2]>>

\* Mutant of EvalLoop: only the nodes that did not fold are pushed.
RECURSIVE EvalLoopKeepsUnresolved(_, _, _, _)
EvalLoopKeepsUnresolved(e, ctx, idx, partial) ==
    IF idx >= Len(e)
    THEN Ok(partial)
    ELSE IF Disconnected(e, idx)
    THEN Err(ExpressionDisconnected(idx))
    ELSE LET r == eval_single(idx, e[idx + 1][1], partial, ctx)
         IN  IF IsErr(r)
             THEN r
             ELSE EvalLoopKeepsUnresolved(e, ctx, idx + 1,
                      IF r[2] = None THEN Append(partial, e[idx + 1]) ELSE partial)

\* The for loop of eval from node idx on, partial holding the nodes produced
\* so far: Ok(partial) after the last node, or the first error.
RECURSIVE EvalLoop(_, _, _, _)
EvalLoop(e, ctx, idx, partial) ==
    IF idx >= Len(e)
    THEN Ok(partial)
    ELSE IF Disconnected(e, idx)
    THEN Err(ExpressionDisconnected(idx))
    ELSE LET r == eval_single(idx, e[idx + 1][1], partial, ctx)
         IN  IF IsErr(r)
             THEN r
             ELSE EvalLoop(e, ctx, idx + 1,
                           Append(partial, Produced(e[idx + 1], r[2])))

eval(e, ctx) ==
    IF e = <<>>
    THEN Err(ExpressionNoop)
    ELSE LET looped == EvalLoop(e, ctx, 0, <<>>)
         IN  IF IsErr(looped)
             THEN looped
             ELSE IF IsErr(ExprLast(e))
             THEN ExprLast(e)
             ELSE LET partial == looped[2]
                      root == ResultsGet(partial, ExprLast(e)[2])
                  IN  IF root # None /\ IsConst(root[2])
                      THEN Ok(Fully(ConstVal(root[2]), partial))
                      ELSE Ok(Partially(partial))

(***************************************************************************)
(* Inputs the calls are tried with                                         *)
(***************************************************************************)
Values ==
    {ValueBool(TRUE), ValueBool(FALSE), ValueInt(41), ValueInt(42),
     ValueStr("is"), ValueStr("in")}

IsValues == {ValueBool(TRUE), ValueInt(42)}
InValues == {{ValueInt(41), ValueInt(42)}, {ValueInt(42), ValueStr("in")}}
ProvideValues == {ValueBool(TRUE), ValueBool(FALSE), ValueInt(42), ValueInt(99)}

(***************************************************************************)
(* The calls as actions                                                    *)
(***************************************************************************)
Call(c, a, r) == [call |-> c, args |-> a, res |-> r]

Init ==
    /\ ops = ExpressionNew
    /\ context = ContextEmpty
    /\ last = Call("new", <<>>, Ok(Unit))
    /\ residual = None
    /\ cond = None

\* A builder call that returned r: the caller drops the residual of the
\* expression once the expression has grown.
Built(c, a, r) ==
    /\ ops' = r.ops
    /\ last' = Call(c, a, r.res)
    /\ residual' = IF r.ops = ops THEN residual ELSE None
    /\ UNCHANGED <<context, cond>>

Constant(value) == Built("constant", <<value>>, constant(ops, value))

Is(variable, value) == Built("is", <<variable, value>>, is(ops, variable, value))

IsIn(variable, values) ==
    \E made \in InNew(variable, values) :
        Built("is_in", <<variable, values>>, is_in(ops, made))

Not(opref) == Built("not", <<opref>>, not(ops, opref))

Or(lhs, rhs) == Built("or", <<lhs, rhs>>, or(ops, lhs, rhs))

And(lhs, rhs) == Built("and", <<lhs, rhs>>, and(ops, lhs, rhs))

Variables ==
    /\ context' = variables(ops)
    /\ last' = Call("variables", <<>>, Ok(variables(ops)))
    /\ residual' = None
    /\ UNCHANGED <<ops, cond>>

Request(props) ==
    /\ context' = ContextRequest(props)
    /\ last' = Call("request", <<props>>, Ok(ContextRequest(props)))
    /\ residual' = None
    /\ UNCHANGED <<ops, cond>>

Provide(property, value) ==
    /\ context' = ContextProvide(context, property, value).ctx
    /\ last' = Call("provide", <<property, value>>,
                    ContextProvide(context, property, value).res)
    /\ UNCHANGED <<ops, residual, cond>>

IsPartially(r) == IsOk(r) /\ r[2][1] = "Partially"
IsFully(r) == IsOk(r) /\ r[2][1] = "Fully"

Eval ==
    /\ last' = Call("eval", <<context>>, eval(ops, context))
    /\ residual' = IF IsPartially(eval(ops, context))
                   THEN Some([expr |-> eval(ops, context)[2][2],
                              provided |-> context.provided])
                   ELSE None
    /\ UNCHANGED <<ops, context, cond>>

\* eval on the residual expression the caller holds, with the Context as it
\* is now.
EvalResidual ==
    /\ residual # None
    /\ last' = Call("eval_residual", <<context>>, eval(residual[2].expr, context))
    /\ UNCHANGED <<ops, context, residual, cond>>

NewIs(variable, expected) ==
    /\ cond' = IF IsOk(IsNew(variable, expected))
               THEN Some(OpIs(IsNew(variable, expected)[2]))
               ELSE None
    /\ last' = Call("Is::new", <<variable, expected>>, IsNew(variable, expected))
    /\ UNCHANGED <<ops, context, residual>>

NewIn(variable, expected) ==
    \E made \in InNew(variable, expected) :
        /\ cond' = IF IsOk(made) THEN Some(OpIn(made[2])) ELSE None
        /\ last' = Call("In::new", <<variable, expected>>, made)
        /\ UNCHANGED <<ops, context, residual>>

CondEval(actual) ==
    /\ cond # None
    /\ last' = Call("cond.eval", <<actual>>,
                    IF cond[2][1] = "Is"
                    THEN IsEval(cond[2][2], actual)
                    ELSE InEval(cond[2][2], actual))
    /\ UNCHANGED <<ops, context, residual, cond>>

(***************************************************************************)
(* Specifications                                                          *)
(***************************************************************************)
\* Any builder call, well formed or not, on an expression of fewer than
\* MaxOps nodes, and variables().
NextBuilder ==
    \/ \E value \in BOOLEAN : Len(ops) < MaxOps /\ Constant(value)
    \/ \E variable \in Properties, value \in IsValues :
           Len(ops) < MaxOps /\ Is(variable, value)
    \/ \E variable \in Properties, values \in InValues :
           Len(ops) < MaxOps /\ IsIn(variable, values)
    \/ \E opref \in 0..MaxOps : Len(ops) < MaxOps /\ Not(opref)
    \/ \E lhs \in 0..MaxOps, rhs \in 0..MaxOps : Len(ops) < MaxOps /\ Or(lhs, rhs)
    \/ \E lhs \in 0..MaxOps, rhs \in 0..MaxOps : Len(ops) < MaxOps /\ And(lhs, rhs)
    \/ Variables

SpecBuilder == Init /\ [][NextBuilder]_vars

\* Context::request (Context::empty is the request of no property) and
\* provide with any property and value.
NextContext ==
    \/ \E props \in SUBSET Properties : Request(props)
    \/ \E property \in Properties, value \in Values : Provide(property, value)

SpecContext == Init /\ [][NextContext]_vars

\* Is::new and In::new with any property and values, and eval of the
\* condition they return with any value.
NextCondition ==
    \/ \E variable \in Properties, expected \in Values : NewIs(variable, expected)
    \/ \E variable \in Properties, expected \in SUBSET Values : NewIn(variable, expected)
    \/ \E actual \in Values : CondEval(actual)

SpecCondition == Init /\ [][NextCondition]_vars

\* Building and evaluating: the caller builds an expression with calls the
\* builder accepts, takes its variables() as the Context, provides values,
\* and evaluates the expression and the residual it holds, in any order.
Next ==
    \/ \E value \in BOOLEAN : Len(ops) < MaxOps /\ Constant(value)
    \/ \E variable \in Properties, value \in IsValues :
           Len(ops) < MaxOps /\ IsOk(IsNew(variable, value)) /\ Is(variable, value)
    \/ \E variable \in Properties, values \in InValues :
           Len(ops) < MaxOps /\ (\A made \in InNew(variable, values) : IsOk(made))
               /\ IsIn(variable, values)
    \/ \E opref \in 0..(Len(ops) - 1) : Len(ops) < MaxOps /\ Not(opref)
    \/ \E lhs \in 0..(Len(ops) - 1), rhs \in 0..(Len(ops) - 1) :
           Len(ops) < MaxOps /\ Or(lhs, rhs)
    \/ \E lhs \in 0..(Len(ops) - 1), rhs \in 0..(Len(ops) - 1) :
           Len(ops) < MaxOps /\ And(lhs, rhs)
    \/ Variables
    \/ \E property \in Properties, value \in ProvideValues : Provide(property, value)
    \/ Eval
    \/ EvalResidual

Spec == Init /\ [][Next]_vars

\* Folding without values: the caller builds an expression of up to
\* MaxFoldOps nodes with calls the builder accepts and evaluates it with the
\* empty Context it starts with.
NextFold ==
    \/ \E value \in BOOLEAN : Len(ops) < MaxFoldOps /\ Constant(value)
    \/ Len(ops) < MaxFoldOps /\ Is("Bool", ValueBool(TRUE))
    \/ Len(ops) < MaxFoldOps /\ IsIn("Int", {ValueInt(41), ValueInt(42)})
    \/ \E opref \in 0..(Len(ops) - 1) : Len(ops) < MaxFoldOps /\ Not(opref)
    \/ \E lhs \in 0..(Len(ops) - 1), rhs \in 0..(Len(ops) - 1) :
           Len(ops) < MaxFoldOps /\ Or(lhs, rhs)
    \/ \E lhs \in 0..(Len(ops) - 1), rhs \in 0..(Len(ops) - 1) :
           Len(ops) < MaxFoldOps /\ And(lhs, rhs)
    \/ Eval

SpecFold == Init /\ [][NextFold]_vars

(***************************************************************************)
(* What the claims speak of                                                *)
(***************************************************************************)
Indices(e) == 0..(Len(e) - 1)

Operands(op) ==
    CASE op[1] = "Not" -> {op[2]}
      [] op[1] \in {"Or", "And"} -> {op[2], op[3]}
      [] OTHER -> {}

\* Node i is an operand of some composite node of e.
Referenced(e, i) == \E j \in Indices(e) : i \in Operands(e[j + 1][1])

\* Every node but the last is referenced.
Connected(e) == \A i \in Indices(e) : i # Len(e) - 1 => Referenced(e, i)

CondNodes(e) == {i \in Indices(e) : e[i + 1][1][1] \in {"Is", "In"}}

\* The values hold one for the property of every Is / In node of e.
AllProvided(e, provided) ==
    \A i \in CondNodes(e) : e[i + 1][1][2].variable \in DOMAIN provided

\* The boolean value of the formula rooted at node i, the Is / In leaves
\* read with the given values.
RECURSIVE Truth(_, _, _)
Truth(e, i, provided) ==
    LET op == e[i + 1][1]
    IN  CASE op[1] = "Const" -> op[2]
          [] op[1] = "Is" -> provided[op[2].variable] = op[2].expected
          [] op[1] = "In" -> provided[op[2].variable] \in op[2].expected
          [] op[1] = "Not" -> ~Truth(e, op[2], provided)
          [] op[1] = "Or" -> Truth(e, op[2], provided) \/ Truth(e, op[3], provided)
          [] op[1] = "And" -> Truth(e, op[2], provided) /\ Truth(e, op[3], provided)

\* provided holds every value held holds, and maybe more.
Extends(provided, held) ==
    \A p \in DOMAIN held : p \in DOMAIN provided /\ provided[p] = held[p]

(***************************************************************************)
(* Claims                                                                  *)
(***************************************************************************)
\* C1: eval of a non-empty expression whose non-last nodes are all
\* referenced, with a Context holding a value for the property of every
\* Is / In node, returns Fully(v, log) where v is the boolean value of the
\* formula rooted at the last node.
C1_EvalFullyIsFormulaValue ==
    (/\ last.call = "eval"
     /\ ops # <<>>
     /\ Connected(ops)
     /\ AllProvided(ops, context.provided))
    => /\ IsFully(last.res)
       /\ last.res[2][2] = Truth(ops, Len(ops) - 1, context.provided)

\* An And of an Is and an In leaf, every value provided, evaluated to true.
C1_Witness ==
    /\ last.call = "eval"
    /\ Len(ops) = 3
    /\ ops[1][1][1] = "Is"
    /\ ops[2][1][1] = "In"
    /\ ops[3][1] = OpAnd(0, 1)
    /\ AllProvided(ops, context.provided)
    /\ IsFully(last.res)
    /\ last.res[2][2] = TRUE

\* C2: when E evaluated to Partially(E') under a Context, and the Context
\* has since only gained values for properties that had none, eval of E'
\* gives what eval of E gives: the same Fully value and log, or the same
\* Partially node list.
C2_ResidualResumes ==
    (/\ last.call = "eval_residual"
     /\ residual # None
     /\ Extends(context.provided, residual[2].provided))
    => /\ IsOk(last.res)
       /\ last.res = eval(ops, context)

\* A residual holding a folded node, evaluated to Fully after a further
\* value was provided.
C2_Witness ==
    /\ last.call = "eval_residual"
    /\ residual # None
    /\ Extends(context.provided, residual[2].provided)
    /\ DOMAIN residual[2].provided # {}
    /\ DOMAIN context.provided # DOMAIN residual[2].provided
    /\ residual[2].expr # ops
    /\ IsFully(last.res)

\* The non-last nodes of e that no node has as an operand.
Unreferenced(e) == {i \in Indices(e) : i # Len(e) - 1 /\ ~Referenced(e, i)}

Lowest(S) == CHOOSE i \in S : \A j \in S : i <= j

\* C7 as stated: eval fails with ExpressionDisconnected naming the index of
\* any node that is not the last and is never referenced.
C7_NamesEveryUnreferencedNode ==
    last.call = "eval"
    => \A i \in Unreferenced(ops) : last.res = Err(ExpressionDisconnected(i))

\* C7, amended: when some node that is not the last is never referenced,
\* eval fails, under any Context, with ExpressionDisconnected naming the
\* lowest index of such a node.
C7_NamesLowestUnreferencedNode ==
    (last.call = "eval" /\ Unreferenced(ops) # {})
    => last.res = Err(ExpressionDisconnected(Lowest(Unreferenced(ops))))

\* Node 0 is referenced, node 1 is not, and eval named node 1.
C7_Witness ==
    /\ last.call = "eval"
    /\ Len(ops) = 3
    /\ Unreferenced(ops) = {1}
    /\ DOMAIN context.provided # {}
    /\ last.res = Err(ExpressionDisconnected(1))

\* C10: eval of a non-empty expression whose non-last nodes are all
\* referenced returns Fully exactly when the Context holds a value for the
\* property of every Is / In node, Partially otherwise, whatever the
\* operands of an Or or And already are; every entry of a Fully log is a
\* Const.
C10_NoShortCircuit ==
    (last.call = "eval" /\ ops # <<>> /\ Connected(ops))
    => /\ IsOk(last.res)
       /\ IsFully(last.res) <=> AllProvided(ops, context.provided)
       /\ IsFully(last.res) =>
              \A k \in 1..Len(last.res[2][3]) : IsConst(last.res[2][3][k])

\* An Or of the constant true and an Is leaf without a value stayed
\* Partially.
C10_Witness ==
    /\ last.call = "eval"
    /\ Len(ops) = 3
    /\ ops[1][1] = Const(TRUE)
    /\ ops[2][1][1] = "Is"
    /\ ops[3][1] = OpOr(0, 1)
    /\ IsPartially(last.res)

\* The formula rooted at node i has no Is / In leaf.
RECURSIVE Closed(_, _)
Closed(e, i) ==
    LET op == e[i + 1][1]
    IN  CASE op[1] = "Const" -> TRUE
          [] op[1] \in {"Is", "In"} -> FALSE
          [] op[1] = "Not" -> Closed(e, op[2])
          [] op[1] \in {"Or", "And"} -> Closed(e, op[2]) /\ Closed(e, op[3])

\* C3 as stated: eval of an expression with an Is / In node, its non-last
\* nodes all referenced, with an empty Context gives Partially with a node
\* list equal to the original's.
C3_ResidualEqualsOriginal ==
    (/\ last.call = "eval"
     /\ CondNodes(ops) # {}
     /\ Connected(ops)
     /\ DOMAIN context.provided = {})
    => /\ IsPartially(last.res)
       /\ last.res[2][2] = ops

\* C3, amended: the result is Partially with a node list of the same length
\* in which a node whose formula has no Is / In leaf is the Const of that
\* formula's value with the node's reference count, and every other node is
\* the original's.
C3_ResidualFoldsClosedNodesOnly ==
    (/\ last.call = "eval"
     /\ CondNodes(ops) # {}
     /\ Connected(ops)
     /\ DOMAIN context.provided = {})
    => /\ IsPartially(last.res)
       /\ Len(last.res[2][2]) = Len(ops)
       /\ \A i \in Indices(ops) :
              last.res[2][2][i + 1] =
                  IF Closed(ops, i)
                  THEN <<Const(Truth(ops, i, NoValues)), ops[i + 1][2]>>
                  ELSE ops[i + 1]

\* Not of a constant beside an Is leaf: the Not folded, the Is did not.
C3_Witness ==
    /\ last.call = "eval"
    /\ Len(ops) = 4
    /\ ops[1][1] = Const(TRUE)
    /\ ops[2][1] = OpNot(0)
    /\ ops[3][1][1] = "Is"
    /\ ops[4][1] = OpAnd(1, 2)
    /\ IsPartially(last.res)
    /\ last.res[2][2][2] = <<Const(FALSE), 1>>
    /\ last.res[2][2][3] = ops[3]

\* C4: Is::new(p, v) succeeds exactly when v has p's datatype, In::new(p, S)
\* exactly when every member of S has it; a failure is
\* TypeMismatch(p.name(), p.datatype(), d), d the datatype of a value of the
\* call that has not p's datatype, and returns no condition.
C4_NewChecksDatatype ==
    /\ last.call = "Is::new" =>
           LET p == last.args[1]
               v == last.args[2]
           IN  /\ IsOk(last.res) <=> datatype(p) = ValueDatatype(v)
               /\ IsOk(last.res) =>
                      cond = Some(OpIs([variable |-> p, expected |-> v]))
               /\ IsErr(last.res) =>
                      /\ last.res[2] = TypeMismatch(name(p), datatype(p), ValueDatatype(v))
                      /\ cond = None
    /\ last.call = "In::new" =>
           LET p == last.args[1]
               S == last.args[2]
           IN  /\ IsOk(last.res) <=> \A v \in S : datatype(p) = ValueDatatype(v)
               /\ IsOk(last.res) =>
                      cond = Some(OpIn([variable |-> p, expected |-> S]))
               /\ IsErr(last.res) =>
                      /\ \E v \in S :
                             /\ datatype(p) # ValueDatatype(v)
                             /\ last.res[2] =
                                    TypeMismatch(name(p), datatype(p), ValueDatatype(v))
                      /\ cond = None

\* In::new on Int with an Int and a Str value failed, naming Str.
C4_Witness ==
    /\ last.call = "In::new"
    /\ last.args = <<"Int", {ValueInt(42), ValueStr("in")}>>
    /\ last.res = Err(TypeMismatch("Property::Int", "Datatype::Int", "Datatype::Str"))
    /\ cond = None

\* C5: eval(a) of a condition on p fails with
\* TypeMismatch(p.name(), p.datatype(), a.datatype()) when a has not p's
\* datatype; otherwise Is(p, v).eval(a) is a = v and In(p, S).eval(a) is
\* a \in S.
C5_CondEval ==
    last.call = "cond.eval" =>
        LET a == last.args[1]
            c == cond[2][2]
            p == c.variable
        IN  IF ValueDatatype(a) # datatype(p)
            THEN last.res = Err(TypeMismatch(name(p), datatype(p), ValueDatatype(a)))
            ELSE IF cond[2][1] = "Is"
            THEN last.res = Ok(a = c.expected)
            ELSE last.res = Ok(a \in c.expected)

\* An In condition on Str with two members, evaluated with a Bool value.
C5_Witness ==
    /\ last.call = "cond.eval"
    /\ cond = Some(OpIn([variable |-> "Str",
                         expected |-> {ValueStr("is"), ValueStr("in")}]))
    /\ last.args = <<ValueBool(TRUE)>>
    /\ IsErr(last.res)

\* C6: not / or / and fail, with ExpressionOutOfBounds, exactly when some
\* operand index is not below the node count, and a builder call that fails
\* leaves the node list, reference counts included, as it was.
C6_BuilderBoundsAndFrame ==
    [][/\ last'.call \in {"not", "or", "and"} =>
              /\ IsErr(last'.res) <=>
                     \E k \in 1..Len(last'.args) : last'.args[k] >= Len(ops)
              /\ IsErr(last'.res) => last'.res[2][1] = "ExpressionOutOfBounds"
              /\ IsOk(last'.res) => Len(ops') = Len(ops) + 1
       /\ (/\ last'.call \in {"constant", "is", "is_in", "not", "or", "and"}
           /\ IsErr(last'.res)) => ops' = ops]_vars

\* or(0, 2) on two nodes failed on its second operand and node 0 is still
\* unreferenced.
C6_Witness ==
    /\ last.call = "or"
    /\ last.args = <<0, 2>>
    /\ Len(ops) = 2
    /\ last.res = Err(ExpressionOutOfBounds(2, 1))
    /\ ops[1][2] = 0

\* C8: provide with a value of another datatype fails with TypeMismatch and
\* leaves the Context as it was; with a well-typed value for an unrequested
\* property it returns Ok and leaves the Context as it was; with a
\* well-typed value for a requested property it returns Ok and makes that
\* the property's value, the rest as it was.  The provided properties are
\* always among the requested.
C8_Provide ==
    /\ [][last'.call = "provide" =>
              LET p == last'.args[1]
                  v == last'.args[2]
              IN  IF datatype(p) # ValueDatatype(v)
                  THEN /\ last'.res =
                              Err(TypeMismatch(name(p), datatype(p), ValueDatatype(v)))
                       /\ context' = context
                  ELSE IF p \notin context.requested
                  THEN /\ last'.res = Ok(Unit)
                       /\ context' = context
                  ELSE /\ last'.res = Ok(Unit)
                       /\ context'.requested = context.requested
                       /\ ContextValue(context', p) = Some(v)
                       /\ \A q \in Properties \ {p} :
                              ContextValue(context', q) = ContextValue(context, q)]_vars
    /\ [](DOMAIN context.provided \subseteq context.requested)

\* Int was provided 42 after Bool had a value.
C8_Witness ==
    /\ last.call = "provide"
    /\ last.args = <<"Int", ValueInt(42)>>
    /\ last.res = Ok(Unit)
    /\ context.requested = {"Bool", "Int"}
    /\ DOMAIN context.provided = {"Bool", "Int"}
    /\ context.provided["Int"] = ValueInt(42)

\* C9: variables() returns a Context that requests exactly the properties
\* of the Is and In nodes and holds no value.
C9_Variables ==
    last.call = "variables" =>
        /\ last.res = Ok(context)
        /\ context.requested = {ops[i + 1][1][2].variable : i \in CondNodes(ops)}
        /\ DOMAIN context.provided = {}

\* An Is and an In node on Int and a composite over them: Int is requested
\* once.
C9_Witness ==
    /\ last.call = "variables"
    /\ Len(ops) = 3
    /\ ops[1][1][1] = "Is"
    /\ ops[2][1][1] = "In"
    /\ ops[3][1][1] = "And"
    /\ context.requested = {"Int"}

\* How many operands of op are the index i: 2 for Or(i, i) and And(i, i).
Occurrences(op, i) ==
    CASE op[1] = "Not" -> IF op[2] = i THEN 1 ELSE 0
      [] op[1] \in {"Or", "And"} ->
           (IF op[2] = i THEN 1 ELSE 0) + (IF op[3] = i THEN 1 ELSE 0)
      [] OTHER -> 0

\* The operands equal to i in the first n nodes of e.
RECURSIVE OccurrencesIn(_, _, _)
OccurrencesIn(e, n, i) ==
    IF n = 0 THEN 0 ELSE OccurrencesIn(e, n - 1, i) + Occurrences(e[n][1], i)

\* C11 as stated: the reference count of node i is the number of other
\* nodes that have i among their operands.
C11_CountIsNumberOfNodes ==
    \A i \in Indices(ops) :
        ops[i + 1][2] =
            Cardinality({j \in Indices(ops) : j # i /\ i \in Operands(ops[j + 1][1])})

\* C11, amended: after any sequence of builder calls the reference count of
\* node i is the number of operands, over all nodes, that are the index i;
\* an Or or And with i as both operands counts twice.
C11_CountIsNumberOfOperands ==
    \A i \in Indices(ops) : ops[i + 1][2] = OccurrencesIn(ops, Len(ops), i)

\* or(0, 0) after a failing call: node 0 is counted twice.
C11_Witness ==
    /\ Len(ops) = 2
    /\ ops[2][1] = OpOr(0, 0)
    /\ ops[1][2] = 2
    /\ last.call = "not"
    /\ IsErr(last.res)

\* The nodes reached from node i by following operands.
RECURSIVE ReachableFrom(_, _)
ReachableFrom(e, i) ==
    LET op == e[i + 1][1]
    IN  {i} \cup
        (CASE op[1] = "Not" -> ReachableFrom(e, op[2])
           [] op[1] \in {"Or", "And"} ->
                ReachableFrom(e, op[2]) \cup ReachableFrom(e, op[3])
           [] OTHER -> {})

Unreachable(e) == Indices(e) \ ReachableFrom(e, Len(e) - 1)

\* The non-last nodes of e with reference count zero.
ZeroCounted(e) == {i \in Indices(e) : i # Len(e) - 1 /\ e[i + 1][2] = 0}

IsDisconnectedError(r) == IsErr(r) /\ r[2][1] = "ExpressionDisconnected"

\* C12: eval of a non-empty expression fails with ExpressionDisconnected
\* exactly when some node cannot be reached from the last node, which is
\* exactly when some non-last node has reference count zero; the index
\* named is the lowest of those, and that node cannot be reached.
C12_DisconnectedIffUnreachable ==
    (last.call = "eval" /\ ops # <<>>)
    => /\ IsDisconnectedError(last.res) <=> Unreachable(ops) # {}
       /\ Unreachable(ops) # {} <=> ZeroCounted(ops) # {}
       /\ IsDisconnectedError(last.res) =>
              /\ last.res[2] = ExpressionDisconnected(Lowest(ZeroCounted(ops)))
              /\ Lowest(ZeroCounted(ops)) \in Unreachable(ops)

\* not(1) over two leaves: node 0 cannot be reached and is named.
C12_Witness ==
    /\ last.call = "eval"
    /\ Len(ops) = 3
    /\ ops[3][1] = OpNot(1)
    /\ Unreachable(ops) = {0}
    /\ last.res = Err(ExpressionDisconnected(0))

\* The node list an Ok result of eval carries: the log of Fully, the
\* expression of Partially.
NodeList(r) == IF r[2][1] = "Fully" THEN r[2][3] ELSE r[2][2]

\* produced is as long as e, and each of its nodes has the count of e's node
\* and is a Const or e's node.
FoldOf(produced, e) ==
    /\ Len(produced) = Len(e)
    /\ \A k \in 1..Len(e) :
           /\ produced[k][2] = e[k][2]
           /\ IsConst(produced[k]) \/ produced[k][1] = e[k][1]

\* The variables with the name of the last call first: two states differ in
\* it exactly when they differ in vars, and results of different calls are
\* never compared.
callVars == <<last.call, vars>>

\* C13: an eval that succeeds returns a node list as long as the expression
\* evaluated, entry i with the reference count of node i and either a Const
\* or node i itself; eval leaves the expression it evaluates, ops or the
\* residual, as it was.
C13_EvalKeepsShapeAndExpression ==
    [][/\ last'.call = "eval" =>
              /\ ops' = ops
              /\ IsOk(last'.res) => FoldOf(NodeList(last'.res), ops)
       /\ last'.call = "eval_residual" =>
              /\ residual' = residual
              /\ ops' = ops
              /\ IsOk(last'.res) => FoldOf(NodeList(last'.res), residual[2].expr)]_callVars

\* An And of two leaves evaluated with one value: node 0 folded to a Const,
\* node 1 and the And are the original's.
C13_Witness ==
    /\ last.call = "eval"
    /\ Len(ops) = 3
    /\ ops[3][1] = OpAnd(0, 1)
    /\ IsPartially(last.res)
    /\ IsConst(last.res[2][2][1])
    /\ ~IsConst(ops[1])
    /\ last.res[2][2][2] = ops[2]
    /\ last.res[2][2][3] = ops[3]

\* Every operand of a node of e is an index below the node's own.
OperandsBelow(e) == \A i \in Indices(e) : \A o \in Operands(e[i + 1][1]) : o < i

\* C14: in every built expression and every residual every operand index
\* is below the node's own index, and eval, of the expression or of the
\* residual, with a Context changed only through provide, fails only with
\* ExpressionNoop, exactly when the expression has no node, or with
\* ExpressionDisconnected.
C14_EvalErrors ==
    /\ OperandsBelow(ops)
    /\ residual # None => OperandsBelow(residual[2].expr)
    /\ last.call \in {"eval", "eval_residual"} =>
           /\ IsPartially(last.res) => OperandsBelow(last.res[2][2])
           /\ IsErr(last.res) =>
                  last.res[2][1] \in {"ExpressionNoop", "ExpressionDisconnected"}
    /\ last.call = "eval" => (last.res = Err(ExpressionNoop) <=> ops = <<>>)
    /\ last.call = "eval_residual" =>
           (last.res = Err(ExpressionNoop) <=> residual[2].expr = <<>>)

\* An Or over an Is leaf on Bool, which has no value, and a leaf on Int,
\* which has one: eval succeeded and left the Or unresolved.
C14_Witness ==
    /\ last.call = "eval"
    /\ Len(ops) = 3
    /\ ops[1][1] = OpIs([variable |-> "Bool", expected |-> ValueBool(TRUE)])
    /\ ops[3][1] = OpOr(0, 1)
    /\ context.requested = {"Bool", "Int"}
    /\ DOMAIN context.provided = {"Int"}
    /\ IsPartially(last.res)

====
